---- MODULE Spec2Model ----
(***************************************************************************)
(* Community Clinic Load Manager: the shared SystemState (state.py), the   *)
(* router (scheduler.py), the request handler (main.py) and the load decay *)
(* worker (simulation.py), as threads that interleave at the granularity   *)
(* of their reads and writes of shared data.                               *)
(*                                                                         *)
(* Numbers.  current_load and expected_duration are floats in the source.  *)
(* The model counts both in whole work units and takes capacities that are *)
(* multiples of 10, so that effective_step = decay_step * capacity / 10 is *)
(* a whole number and every float operation of the source is exact.        *)
(* Predicted waits are compared as fractions (cross-multiplication).       *)
(*                                                                         *)
(* Objects.  A Center object is identified by the add_center call that     *)
(* constructed it, a request object by the handler thread that minted it:  *)
(* the integer ids the program hands out are fields of those objects.      *)
(***************************************************************************)
EXTENDS Integers, Sequences, FiniteSets, TLC

\* ---------------------------------------------------------------- bounds
NumAdders == 2          \* concurrent POST /centers calls
NumRequesters == 2      \* concurrent POST /appointments calls
MaxClock == 1           \* largest value the process clock reaches
MaxDecayStep == 2       \* largest decay_step the decay scenario starts the worker with
MaxRoutes == 2          \* route_request calls made on one request in the re-route scenario

Adders == 1..NumAdders
Requesters == 1..NumRequesters

Capacities == {-10, 0, 10, 20}   \* CenterCreate.capacity: any int
Urgencies == {5, 6}              \* AppointmentIn.urgency: 1..10
Durations == {1, 2}              \* AppointmentIn.expected_duration: > 0
DecaySteps == 0..MaxDecayStep    \* start_load_decay_worker(decay_step): >= 0

DecayStep == 1          \* start_load_decay_worker(decay_step=1.0, ...)

None == 0               \* Python's None, for object references and ids
NoThread == 0           \* a lock nobody holds

VARIABLES
    \* ---- SystemState
    centers,            \* dict id -> Center, as a sequence of <<key, object>> in insertion order
    objs,               \* the Center objects constructed so far: object -> record
    requests,           \* dict id -> request object
    reqObjs,            \* the AppointmentRequest objects constructed so far
    history,            \* list of RoutingEvent
    next_center_id,
    next_request_id,
    clock,              \* the last value time.time() returned
    \* ---- one create_center handler per adder
    apc, acap, acid, atmp,
    \* ---- one request_appointment handler per requester
    rpc, rurg, rdur, rrid, rtmp,
    riter,              \* the dict iterator of the list comprehension: [used, pos]
    rcands,             \* the candidates collected so far
    rcenter, rreason,   \* what choose_best_center returned
    rload,              \* the current_load read by  center.current_load += ...
    rts,                \* the timestamp read for the event
    rwait,              \* the predicted wait reported to the caller
    \* ---- the decay worker
    dpc, diter, dcenter, dload,
    decay_step,         \* the decay_step the worker was started with
    \* ---- history variables (not program state)
    applied,            \* requesters in the order their load increments were stored
    appended,           \* requester -> position of the event it appended, 0 if none
    decayed             \* object -> total load removed by decay ticks

sysVars == <<centers, objs, requests, reqObjs, history, next_center_id, next_request_id, clock>>
addVars == <<apc, acap, acid, atmp>>
reqVars == <<rpc, rurg, rdur, rrid, rtmp, riter, rcands, rcenter, rreason, rload, rts, rwait>>
decVars == <<dpc, diter, dcenter, dload, decay_step>>
ghostVars == <<applied, appended, decayed>>
vars == <<sysVars, addVars, reqVars, decVars, ghostVars>>

\* ---------------------------------------------------------------- helpers
Max(a, b) == IF a >= b THEN a ELSE b

\* dict: the position of key k in the insertion order, 0 if absent
DictPos(d, k) ==
    IF \E i \in 1..Len(d) : d[i][1] = k
    THEN CHOOSE i \in 1..Len(d) : d[i][1] = k
    ELSE 0

\* dict: d[k] = v.  A new key goes last; an existing key keeps its position.
DictSet(d, k, v) ==
    IF DictPos(d, k) = 0
    THEN Append(d, <<k, v>>)
    ELSE [d EXCEPT ![DictPos(d, k)] = <<k, v>>]

\* a fresh dict iterator: remembers the dict's size
NewIter(d) == [used |-> Len(d), pos |-> 1]

\* what next() on the iterator does
IterChanged(it, d) == it.used # Len(d)
IterExhausted(it, d) == ~IterChanged(it, d) /\ it.pos > Len(d)
IterYields(it, d) == ~IterChanged(it, d) /\ it.pos <= Len(d)

\* Center(id=cid, name=name, capacity=capacity)
Center(cid, capacity) ==
    [id |-> cid, capacity |-> capacity, current_load |-> 0, is_up |-> TRUE, lock |-> NoThread]

\* AppointmentRequest(id=rid, urgency=..., expected_duration=..., arrival_time=...)
AppointmentRequest(rid, urgency, dur) ==
    [id |-> rid, urgency |-> urgency, expected_duration |-> dur, assigned_center_id |-> None]

\* RoutingEvent(timestamp, request_id, center_id, reason)
RoutingEvent(ts, rid, cid, reason) ==
    [timestamp |-> ts, request_id |-> rid, center_id |-> cid, reason |-> reason]

\* a predicted wait that leaves the load of the center out
predicted_wait_timeIdle(c, extra_work) ==
    IF ~c.is_up \/ c.capacity <= 0
    THEN [inf |-> TRUE, num |-> 0, den |-> 1]
    ELSE [inf |-> FALSE, num |-> extra_work, den |-> c.capacity]

\* Center.predicted_wait_time(extra_work), as a fraction num / den
predicted_wait_time(c, extra_work) ==
    IF ~c.is_up \/ c.capacity <= 0
    THEN [inf |-> TRUE, num |-> 0, den |-> 1]
    ELSE [inf |-> FALSE, num |-> c.current_load + extra_work, den |-> c.capacity]

\* w1 < w2 on predicted waits
WaitLess(w1, w2) ==
    IF w1.inf THEN FALSE
    ELSE IF w2.inf THEN TRUE
    ELSE w1.num * w2.den < w2.num * w1.den

\* the candidate test of the list comprehension
IsCandidate(c) == c.is_up /\ c.capacity > 0

\* mutant of LockFree: the increment and the decay take no lock
LockFreeUnguarded(c) == TRUE

\* with center.lock: the lock can be taken when nobody holds it
LockFree(c) == c.lock = NoThread

\* the thread id under which the decay worker holds a lock
DecayThread == NumRequesters + 1

\* ---------------------------------------------------------------- selection policy
\* min(candidates, key=sjf_wait): the first candidate no later one is strictly below
RECURSIVE MinBySjfWait(_, _, _, _)
MinBySjfWait(cands, i, best, extra_work) ==
    IF i > Len(cands) THEN best
    ELSE MinBySjfWait(cands, i + 1,
            IF WaitLess(predicted_wait_time(objs[cands[i]], extra_work),
                        predicted_wait_time(objs[best], extra_work))
            THEN cands[i] ELSE best,
            extra_work)

\* max(candidates, key=lambda c: c.capacity): the first candidate no later one is strictly above
RECURSIVE MaxByCapacity(_, _, _)
MaxByCapacity(cands, i, best) ==
    IF i > Len(cands) THEN best
    ELSE MaxByCapacity(cands, i + 1,
            IF objs[cands[i]].capacity > objs[best].capacity THEN cands[i] ELSE best)

sjf_center(cands, extra_work) == MinBySjfWait(cands, 2, cands[1], extra_work)
priority_center(cands) == MaxByCapacity(cands, 2, cands[1])

\* choose_best_center(request), given the candidates the list comprehension collected
choose_best_center(cands, urgency, expected_duration) ==
    IF cands = <<>> THEN [center |-> None, reason |-> "no_centers"]
    ELSE IF urgency <= 5
         THEN [center |-> sjf_center(cands, expected_duration), reason |-> "least_loaded_sjf"]
    ELSE IF objs[priority_center(cands)].id # objs[sjf_center(cands, expected_duration)].id
         THEN [center |-> priority_center(cands), reason |-> "priority_override"]
         ELSE [center |-> sjf_center(cands, expected_duration), reason |-> "least_loaded_sjf"]

\* mutant of DecayedLoad: the max(0.0, ...) floor is dropped
DecayedLoadNoFloor(current_load, capacity) == current_load - (decay_step * capacity) \div 10

\* mutant of DecayedLoad: the step is not scaled by the capacity
DecayedLoadUnscaled(current_load, capacity) == Max(0, current_load - decay_step)

\* mutant of DecayedLoad: the effective step is added
DecayedLoadSignFlipped(current_load, capacity) ==
    Max(0, current_load + (decay_step * capacity) \div 10)

\* decay_load, for one center whose current_load is > 0
DecayedLoad(current_load, capacity) == Max(0, current_load - (decay_step * capacity) \div 10)

\* mutant of NeedsDecay: the  if center.current_load > 0  guard is dropped
NeedsDecayAlways(current_load) == TRUE

\* if center.current_load > 0:
NeedsDecay(current_load) == current_load > 0

\* decay_load, for one center: the load it leaves, given the load read under the lock
decay_center(current_load, capacity) ==
    IF NeedsDecay(current_load) THEN DecayedLoad(current_load, capacity) ELSE current_load

\* mutant of Incremented: the duration is added twice
IncrementedTwice(current_load, expected_duration) == current_load + 2 * expected_duration

\* center.current_load += request.expected_duration, given the load read under the lock
Incremented(current_load, expected_duration) == current_load + expected_duration

\* mutant of Released: the lock is still held after the with block
ReleasedNot(c) == c

\* the exit of  with center.lock:
Released(c) == [c EXCEPT !.lock = NoThread]

\* mutant of add_event: the event is inserted at the front of the list
add_eventAtFront(h, event) == <<event>> \o h

\* SystemState.add_event
add_event(h, event) == Append(h, event)

\* ---------------------------------------------------------------- initial state
\* SystemState.__init__, the decay worker just started (startup_event), and the inbound
\* calls of the run: adders A and requesters R will call, each with a payload drawn from
\* the input sets; the other handler threads stay idle.
InitCalls(A, R) ==
    /\ centers = <<>>
    /\ objs = <<>>
    /\ requests = <<>>
    /\ reqObjs = <<>>
    /\ history = <<>>
    /\ next_center_id = 1
    /\ next_request_id = 1
    /\ clock = 0
    /\ apc = [a \in Adders |-> IF a \in A THEN "a_read" ELSE "idle"]
    /\ acap \in [Adders -> Capacities \cup {0}]
    /\ \A a \in Adders \ A : acap[a] = 0
    /\ acid = [a \in Adders |-> None]
    /\ atmp = [a \in Adders |-> 0]
    /\ rpc = [t \in Requesters |-> IF t \in R THEN "c_read" ELSE "idle"]
    /\ rurg \in [Requesters -> Urgencies \cup {0}]
    /\ rdur \in [Requesters -> Durations \cup {0}]
    /\ \A t \in R : rurg[t] \in Urgencies /\ rdur[t] \in Durations
    /\ \A t \in Requesters \ R : rurg[t] = 0 /\ rdur[t] = 0
    /\ rrid = [t \in Requesters |-> None]
    /\ rtmp = [t \in Requesters |-> 0]
    /\ riter = [t \in Requesters |-> NewIter(<<>>)]
    /\ rcands = [t \in Requesters |-> <<>>]
    /\ rcenter = [t \in Requesters |-> None]
    /\ rreason = [t \in Requesters |-> ""]
    /\ rload = [t \in Requesters |-> 0]
    /\ rts = [t \in Requesters |-> 0]
    /\ rwait = [t \in Requesters |-> [inf |-> FALSE, num |-> 0, den |-> 1]]
    /\ dpc = "d_sleep"
    /\ diter = NewIter(<<>>)
    /\ dcenter = None
    /\ dload = 0
    /\ applied = <<>>
    /\ appended = [t \in Requesters |-> 0]
    /\ decayed = [o \in Adders |-> 0]

\* every call arrives
Init == InitCalls(Adders, Requesters) /\ decay_step = DecayStep

\* registry scenario: every add_center call arrives, and all requests but one
InitRegistry == InitCalls(Adders, 1..(NumRequesters - 1)) /\ decay_step = DecayStep

\* routing scenario: every request arrives, all routine (with the single candidate
\* this leaves, urgency decides nothing), and all add_center calls but one
InitRouting ==
    /\ InitCalls(1..(NumAdders - 1), Requesters)
    /\ \A t \in Requesters : rurg[t] <= 5
    /\ decay_step = DecayStep

\* decay scenario: one add_center call and one request arrive, and the worker was
\* started with any decay_step of DecaySteps
InitDecay == InitCalls({1}, {1}) /\ decay_step \in DecaySteps

\* ---------------------------------------------------------------- add_center (POST /centers)
\* cid = self._next_center_id
AddRead(a) ==
    /\ apc[a] = "a_read"
    /\ acid' = [acid EXCEPT ![a] = next_center_id]
    /\ apc' = [apc EXCEPT ![a] = "a_load"]
    /\ UNCHANGED <<sysVars, acap, atmp, reqVars, decVars, ghostVars>>

\* self._next_center_id += 1 : the read
AddLoad(a) ==
    /\ apc[a] = "a_load"
    /\ atmp' = [atmp EXCEPT ![a] = next_center_id]
    /\ apc' = [apc EXCEPT ![a] = "a_store"]
    /\ UNCHANGED <<sysVars, acap, acid, reqVars, decVars, ghostVars>>

\* self._next_center_id += 1 : the write
AddStore(a) ==
    /\ apc[a] = "a_store"
    /\ next_center_id' = atmp[a] + 1
    /\ apc' = [apc EXCEPT ![a] = "a_put"]
    /\ UNCHANGED <<centers, objs, requests, reqObjs, history, next_request_id, clock>>
    /\ UNCHANGED <<acap, acid, atmp, reqVars, decVars, ghostVars>>

\* center = Center(...); self.centers[cid] = center
AddPut(a) ==
    /\ apc[a] = "a_put"
    /\ objs' = objs @@ (a :> Center(acid[a], acap[a]))
    /\ centers' = DictSet(centers, acid[a], a)
    /\ apc' = [apc EXCEPT ![a] = "a_done"]
    /\ UNCHANGED <<requests, reqObjs, history, next_center_id, next_request_id, clock>>
    /\ UNCHANGED <<acap, acid, atmp, reqVars, decVars, ghostVars>>

\* ---------------------------------------------------------------- create_request (POST /appointments)
\* rid = self._next_request_id
CreateRead(t) ==
    /\ rpc[t] = "c_read"
    /\ rrid' = [rrid EXCEPT ![t] = next_request_id]
    /\ rpc' = [rpc EXCEPT ![t] = "c_load"]
    /\ UNCHANGED <<sysVars, addVars, decVars, ghostVars>>
    /\ UNCHANGED <<rurg, rdur, rtmp, riter, rcands, rcenter, rreason, rload, rts, rwait>>

\* self._next_request_id += 1 : the read
CreateLoad(t) ==
    /\ rpc[t] = "c_load"
    /\ rtmp' = [rtmp EXCEPT ![t] = next_request_id]
    /\ rpc' = [rpc EXCEPT ![t] = "c_store"]
    /\ UNCHANGED <<sysVars, addVars, decVars, ghostVars>>
    /\ UNCHANGED <<rurg, rdur, rrid, riter, rcands, rcenter, rreason, rload, rts, rwait>>

\* self._next_request_id += 1 : the write
CreateStore(t) ==
    /\ rpc[t] = "c_store"
    /\ next_request_id' = rtmp[t] + 1
    /\ rpc' = [rpc EXCEPT ![t] = "c_put"]
    /\ UNCHANGED <<centers, objs, requests, reqObjs, history, next_center_id, clock>>
    /\ UNCHANGED <<addVars, decVars, ghostVars>>
    /\ UNCHANGED <<rurg, rdur, rrid, rtmp, riter, rcands, rcenter, rreason, rload, rts, rwait>>

\* req = AppointmentRequest(...); self.requests[rid] = req
CreatePut(t) ==
    /\ rpc[t] = "c_put"
    /\ reqObjs' = reqObjs @@ (t :> AppointmentRequest(rrid[t], rurg[t], rdur[t]))
    /\ requests' = DictSet(requests, rrid[t], t)
    /\ rpc' = [rpc EXCEPT ![t] = "r_iter"]
    /\ UNCHANGED <<centers, objs, history, next_center_id, next_request_id, clock>>
    /\ UNCHANGED <<addVars, decVars, ghostVars>>
    /\ UNCHANGED <<rurg, rdur, rrid, rtmp, riter, rcands, rcenter, rreason, rload, rts, rwait>>

\* ---------------------------------------------------------------- route_request
\* candidates = [c for c in system_state.centers.values() ...] : the iterator is made
RouteIter(t) ==
    /\ rpc[t] = "r_iter"
    /\ riter' = [riter EXCEPT ![t] = NewIter(centers)]
    /\ rcands' = [rcands EXCEPT ![t] = <<>>]
    /\ rpc' = [rpc EXCEPT ![t] = "r_next"]
    /\ UNCHANGED <<sysVars, addVars, decVars, ghostVars>>
    /\ UNCHANGED <<rurg, rdur, rrid, rtmp, rcenter, rreason, rload, rts, rwait>>

\* one next() of the list comprehension: RuntimeError when the dict changed size,
\* else the next center is tested and kept, or the comprehension ends
RouteNext(t) ==
    /\ rpc[t] = "r_next"
    /\ \/ /\ IterChanged(riter[t], centers)
          /\ rpc' = [rpc EXCEPT ![t] = "error"]
          /\ UNCHANGED <<riter, rcands>>
       \/ /\ IterYields(riter[t], centers)
          /\ rcands' = [rcands EXCEPT ![t] =
                IF IsCandidate(objs[centers[riter[t].pos][2]])
                THEN Append(@, centers[riter[t].pos][2]) ELSE @]
          /\ riter' = [riter EXCEPT ![t].pos = @ + 1]
          /\ UNCHANGED rpc
       \/ /\ IterExhausted(riter[t], centers)
          /\ rpc' = [rpc EXCEPT ![t] = "r_choose"]
          /\ UNCHANGED <<riter, rcands>>
    /\ UNCHANGED <<sysVars, addVars, decVars, ghostVars>>
    /\ UNCHANGED <<rurg, rdur, rrid, rtmp, rcenter, rreason, rload, rts, rwait>>

\* the rest of choose_best_center, and  if center is None: return None  (HTTP 503)
RouteChoose(t) ==
    /\ rpc[t] = "r_choose"
    /\ LET res == choose_best_center(rcands[t], reqObjs[t].urgency, reqObjs[t].expected_duration)
       IN /\ rcenter' = [rcenter EXCEPT ![t] = res.center]
          /\ rreason' = [rreason EXCEPT ![t] = res.reason]
          /\ rpc' = [rpc EXCEPT ![t] = IF res.center = None THEN "failed" ELSE "r_lock"]
    /\ UNCHANGED <<sysVars, addVars, decVars, ghostVars>>
    /\ UNCHANGED <<rurg, rdur, rrid, rtmp, riter, rcands, rload, rts, rwait>>

\* with center.lock: (acquire) and the read of  center.current_load += ...
RouteLock(t) ==
    /\ rpc[t] = "r_lock"
    /\ LockFree(objs[rcenter[t]])
    /\ objs' = [objs EXCEPT ![rcenter[t]].lock = t]
    /\ rload' = [rload EXCEPT ![t] = objs[rcenter[t]].current_load]
    /\ rpc' = [rpc EXCEPT ![t] = "r_store"]
    /\ UNCHANGED <<centers, requests, reqObjs, history, next_center_id, next_request_id, clock>>
    /\ UNCHANGED <<addVars, decVars, ghostVars>>
    /\ UNCHANGED <<rurg, rdur, rrid, rtmp, riter, rcands, rcenter, rreason, rts, rwait>>

\* the write of  center.current_load += request.expected_duration, and the release
RouteStore(t) ==
    /\ rpc[t] = "r_store"
    /\ objs' = [objs EXCEPT ![rcenter[t]] =
                  Released([@ EXCEPT !.current_load =
                                Incremented(rload[t], reqObjs[t].expected_duration)])]
    /\ applied' = Append(applied, t)
    /\ rpc' = [rpc EXCEPT ![t] = "r_assign"]
    /\ UNCHANGED <<centers, requests, reqObjs, history, next_center_id, next_request_id, clock>>
    /\ UNCHANGED <<addVars, decVars, appended, decayed>>
    /\ UNCHANGED <<rurg, rdur, rrid, rtmp, riter, rcands, rcenter, rreason, rload, rts, rwait>>

\* request.assigned_center_id = center.id, and  timestamp=time.time()
RouteAssign(t) ==
    /\ rpc[t] = "r_assign"
    /\ reqObjs' = [reqObjs EXCEPT ![t].assigned_center_id = objs[rcenter[t]].id]
    /\ \E now \in clock..MaxClock :
          /\ clock' = now
          /\ rts' = [rts EXCEPT ![t] = now]
    /\ rpc' = [rpc EXCEPT ![t] = "r_event"]
    /\ UNCHANGED <<centers, objs, requests, history, next_center_id, next_request_id>>
    /\ UNCHANGED <<addVars, decVars, ghostVars>>
    /\ UNCHANGED <<rurg, rdur, rrid, rtmp, riter, rcands, rcenter, rreason, rload, rwait>>

\* system_state.add_event(RoutingEvent(...)); return center
RouteEvent(t) ==
    /\ rpc[t] = "r_event"
    /\ history' = add_event(history,
            RoutingEvent(rts[t], reqObjs[t].id, objs[rcenter[t]].id, rreason[t]))
    /\ appended' = [appended EXCEPT ![t] = Len(history')]
    /\ rpc' = [rpc EXCEPT ![t] = "m_wait"]
    /\ UNCHANGED <<centers, objs, requests, reqObjs, next_center_id, next_request_id, clock>>
    /\ UNCHANGED <<addVars, decVars, applied, decayed>>
    /\ UNCHANGED <<rurg, rdur, rrid, rtmp, riter, rcands, rcenter, rreason, rload, rts, rwait>>

\* predicted_wait = center.predicted_wait_time(); return AppointmentOut(...)
ReportWait(t) ==
    /\ rpc[t] = "m_wait"
    /\ rwait' = [rwait EXCEPT ![t] = predicted_wait_time(objs[rcenter[t]], 0)]
    /\ rpc' = [rpc EXCEPT ![t] = "done"]
    /\ UNCHANGED <<sysVars, addVars, decVars, ghostVars>>
    /\ UNCHANGED <<rurg, rdur, rrid, rtmp, riter, rcands, rcenter, rreason, rload, rts>>

\* route_request(request) called once more on a request that a route_request call
\* already returned a center for: route_request has no test of assigned_center_id,
\* so the call starts like the first.  request_appointment never makes this call.
RouteAgain(t) ==
    /\ rpc[t] = "done"
    /\ Len(history) < MaxRoutes
    /\ rpc' = [rpc EXCEPT ![t] = "r_iter"]
    /\ UNCHANGED <<sysVars, addVars, decVars, ghostVars>>
    /\ UNCHANGED <<rurg, rdur, rrid, rtmp, riter, rcands, rcenter, rreason, rload, rts, rwait>>

\* ---------------------------------------------------------------- the decay worker
\* system_state.decay_load(decay_step): for center in self.centers.values(): the iterator is made
DecayTick ==
    /\ dpc = "d_sleep"
    /\ diter' = NewIter(centers)
    /\ dpc' = "d_next"
    /\ UNCHANGED <<sysVars, addVars, reqVars, dcenter, dload, decay_step, ghostVars>>

\* one next() of the for loop: RuntimeError when the dict changed size (the worker
\* thread dies: nothing catches it), else the next center, or the tick ends and the
\* worker sleeps
DecayNext ==
    /\ dpc = "d_next"
    /\ \/ /\ IterChanged(diter, centers)
          /\ dpc' = "d_error"
          /\ UNCHANGED <<diter, dcenter>>
       \/ /\ IterYields(diter, centers)
          /\ dcenter' = centers[diter.pos][2]
          /\ diter' = [diter EXCEPT !.pos = @ + 1]
          /\ dpc' = "d_lock"
       \/ /\ IterExhausted(diter, centers)
          /\ dpc' = "d_sleep"
          /\ UNCHANGED <<diter, dcenter>>
    /\ UNCHANGED <<sysVars, addVars, reqVars, dload, decay_step, ghostVars>>

\* with center.lock: (acquire) and the read of center.current_load
DecayLock ==
    /\ dpc = "d_lock"
    /\ LockFree(objs[dcenter])
    /\ objs' = [objs EXCEPT ![dcenter].lock = DecayThread]
    /\ dload' = objs[dcenter].current_load
    /\ dpc' = "d_store"
    /\ UNCHANGED <<centers, requests, reqObjs, history, next_center_id, next_request_id, clock>>
    /\ UNCHANGED <<addVars, reqVars, diter, dcenter, decay_step, ghostVars>>

\* if center.current_load > 0: center.current_load = max(0.0, ...), and the release
DecayStore ==
    /\ dpc = "d_store"
    /\ LET new == decay_center(dload, objs[dcenter].capacity)
       IN /\ objs' = [objs EXCEPT ![dcenter] =
                        Released(IF NeedsDecay(dload) THEN [@ EXCEPT !.current_load = new] ELSE @)]
          /\ decayed' = [decayed EXCEPT ![dcenter] = @ + (dload - new)]
    /\ dpc' = "d_next"
    /\ UNCHANGED <<centers, requests, reqObjs, history, next_center_id, next_request_id, clock>>
    /\ UNCHANGED <<addVars, reqVars, diter, dcenter, dload, decay_step, applied, appended>>

\* ---------------------------------------------------------------- specification
Next ==
    \/ \E a \in Adders : AddRead(a) \/ AddLoad(a) \/ AddStore(a) \/ AddPut(a)
    \/ \E t \in Requesters : CreateRead(t) \/ CreateLoad(t) \/ CreateStore(t) \/ CreatePut(t)
    \/ \E t \in Requesters : RouteIter(t) \/ RouteNext(t) \/ RouteChoose(t)
    \/ \E t \in Requesters : RouteLock(t) \/ RouteStore(t) \/ RouteAssign(t) \/ RouteEvent(t)
    \/ \E t \in Requesters : ReportWait(t)
    \/ DecayTick \/ DecayNext \/ DecayLock \/ DecayStore

Spec == Init /\ [][Next]_vars
SpecRegistry == InitRegistry /\ [][Next]_vars
SpecRouting == InitRouting /\ [][Next]_vars
SpecDecay == InitDecay /\ [][Next]_vars

\* re-route scenario: the registry scenario, with a caller that hands a routed
\* request to route_request again
NextReroute == Next \/ \E t \in Requesters : RouteAgain(t)

SpecReroute == InitRegistry /\ [][NextReroute]_vars

\* ---------------------------------------------------------------- claims
\* requesters whose route_request call stored its load increment
Applied == {applied[i] : i \in 1..Len(applied)}

\* position of requester t in the order of stored increments
AppliedPos(t) == CHOOSE i \in 1..Len(applied) : applied[i] = t

RECURSIVE SumDurations(_)
SumDurations(T) ==
    IF T = {} THEN 0
    ELSE LET t == CHOOSE x \in T : TRUE
         IN reqObjs[t].expected_duration + SumDurations(T \ {t})

\* the durations routed to center object o so far
Routed(o) == SumDurations({t \in Applied : rcenter[t] = o})

\* C1: no lost updates.  Every center's current_load is the sum of the durations of
\* the route calls that incremented it, each counted once, minus what decay ticks
\* removed from it; so with no decay applied to it, the load is exactly that sum
\* (a center starts at load 0).
C1_NoLostUpdates ==
    \A o \in DOMAIN objs :
        /\ objs[o].current_load + decayed[o] = Routed(o)
        /\ decayed[o] = 0 => objs[o].current_load = Routed(o)

\* C1 witness: two route calls, with different durations, incremented the same
\* center, and a decay tick removed load from it in between or after
C1_Witness ==
    \E t1, t2 \in Applied :
        /\ t1 # t2
        /\ rcenter[t1] = rcenter[t2]
        /\ reqObjs[t1].expected_duration # reqObjs[t2].expected_duration
        /\ decayed[rcenter[t1]] > 0
        /\ objs[rcenter[t1]].current_load > 0

\* C2: every center's current_load is >= 0 in every reachable state, whatever its
\* capacity.
C2_LoadNonNegative == \A o \in DOMAIN objs : objs[o].current_load >= 0

\* C2 witness: a center of negative capacity is registered, and a decay tick was
\* clipped at 0 on another center (it removed less than the effective step)
C2_Witness ==
    /\ \E o \in DOMAIN objs : objs[o].capacity < 0
    /\ \E o \in DOMAIN objs :
          /\ objs[o].current_load = 0
          /\ decayed[o] > 0
          /\ decayed[o] % ((decay_step * objs[o].capacity) \div 10) # 0

\* the candidate set of the registry: registered centers with is_up and capacity > 0
RegistryCandidates ==
    {o \in {centers[i][2] : i \in 1..Len(centers)} : objs[o].is_up /\ objs[o].capacity > 0}

\* route runs without interleaving when the candidates it collected are the registry's
CollectedAll(t) == {rcands[t][i] : i \in 1..Len(rcands[t])} = RegistryCandidates

\* (current_load + extra) / capacity of a <= that of b, for capacities > 0
WaitLeq(a, b, extra) ==
    (objs[a].current_load + extra) * objs[b].capacity
        <= (objs[b].current_load + extra) * objs[a].capacity

\* c minimizes the predicted wait over S, with the lowest id among those that do
IsSjfLowestId(c, S, extra) ==
    /\ c \in S
    /\ \A o \in S : WaitLeq(c, o, extra)
    /\ \A o \in S : WaitLeq(o, c, extra) => objs[c].id <= objs[o].id

\* c has the maximum capacity over S, with the lowest id among those that have it
IsMaxCapacityLowestId(c, S) ==
    /\ c \in S
    /\ \A o \in S : objs[o].capacity <= objs[c].capacity
    /\ \A o \in S : objs[o].capacity = objs[c].capacity => objs[c].id <= objs[o].id

\* C3 (as claimed): for a request of urgency <= 5 and a non-empty candidate set, route,
\* run without interleaving, selects the candidate of minimum
\* (current_load + expected_duration) / capacity, the lowest node id among those tied
\* on the minimum, with reason least_loaded_sjf.
C3_SjfLowestId ==
    [][\A t \in Requesters :
          (/\ rpc[t] = "r_choose"
           /\ rpc'[t] # "r_choose"
           /\ reqObjs[t].urgency <= 5
           /\ RegistryCandidates # {}
           /\ CollectedAll(t))
          => (/\ rpc'[t] = "r_lock"
              /\ IsSjfLowestId(rcenter'[t], RegistryCandidates, reqObjs[t].expected_duration)
              /\ rreason'[t] = "least_loaded_sjf")]_vars

\* C4 (as claimed): for a request of urgency >= 6 and a non-empty candidate set, route
\* selects the candidate of maximum capacity, the lowest node id among those tied on
\* capacity; the reason is priority_override iff that node is not the SJF candidate.
C4_MaxCapacityLowestId ==
    [][\A t \in Requesters :
          (/\ rpc[t] = "r_choose"
           /\ rpc'[t] # "r_choose"
           /\ reqObjs[t].urgency >= 6
           /\ RegistryCandidates # {}
           /\ CollectedAll(t))
          => (/\ rpc'[t] = "r_lock"
              /\ IsMaxCapacityLowestId(rcenter'[t], RegistryCandidates)
              /\ rreason'[t] \in {"priority_override", "least_loaded_sjf"}
              /\ (rreason'[t] = "priority_override") <=>
                     ~IsSjfLowestId(rcenter'[t], RegistryCandidates,
                                    reqObjs[t].expected_duration))]_vars

\* no center that is up with capacity > 0 was ever constructed: the candidate set
\* has been empty since the start
NoCandidateEver == \A o \in DOMAIN objs : ~(objs[o].is_up /\ objs[o].capacity > 0)

\* the route_request call of requester t is over, or past choose_best_center
RouteDecided(t) == rpc[t] \in {"failed", "error", "r_lock", "r_store", "r_assign",
                                "r_event", "m_wait", "done"}

\* C5 (as claimed): when the candidate set is empty, route returns the no-candidates
\* failure and changes nothing: no load, no assigned_center_id, no event.
C5_EmptyCandidatesFail ==
    \A t \in Requesters :
        (NoCandidateEver /\ RouteDecided(t))
        => (/\ rpc[t] = "failed"
            /\ reqObjs[t].assigned_center_id = None
            /\ history = <<>>
            /\ \A o \in DOMAIN objs : objs[o].current_load = 0)

\* requesters whose route_request call appended its event
Appended == {t \in Requesters : appended[t] # 0}

\* the event of requester t is in the log, and carries the request's id, the chosen
\* center's id (the request's assigned_center_id) and the policy's reason
EventOf(t) ==
    /\ appended[t] \in 1..Len(history)
    /\ history[appended[t]].request_id = reqObjs[t].id
    /\ history[appended[t]].center_id = objs[rcenter[t]].id
    /\ history[appended[t]].center_id = reqObjs[t].assigned_center_id
    /\ history[appended[t]].reason = rreason[t]
    /\ rreason[t] \in {"least_loaded_sjf", "priority_override"}

\* one event per route call that returned a center, none for the others
OneEventPerRoute ==
    /\ \A t \in Requesters : rpc[t] \in {"m_wait", "done"} <=> t \in Appended
    /\ \A t \in Appended : EventOf(t)
    /\ \A t1, t2 \in Appended : t1 # t2 => appended[t1] # appended[t2]
    /\ Len(history) = Cardinality(Appended)

\* the log only grows at its end
AppendOnly ==
    /\ Len(history') >= Len(history)
    /\ SubSeq(history', 1, Len(history)) = history

\* C6: every successful route call appends exactly one event, carrying the request's
\* id, the chosen node's id (the request's assigned_center_id) and the policy's reason
\* code; the Event Log is append-only: its earlier contents are a prefix of its later
\* contents.
C6_OneEventPerRoute == []OneEventPerRoute /\ [][AppendOnly]_vars

\* C6 witness: two route calls returned a center and the log holds their two events
C6_Witness ==
    /\ Cardinality(Appended) >= 2
    /\ \A t \in Appended : rpc[t] = "done"
    /\ Len(history) >= 2

\* C7 (as claimed): any two requests minted by create_request have distinct ids, so no
\* two events produced for different requests carry the same request_id.
C7_UniqueRequestIds ==
    /\ \A t1, t2 \in DOMAIN reqObjs : t1 # t2 => reqObjs[t1].id # reqObjs[t2].id
    /\ \A t1, t2 \in Appended :
          t1 # t2 => history[appended[t1]].request_id # history[appended[t2]].request_id

\* the add_center calls that returned
AddDone == {a \in Adders : apc[a] = "a_done"}

\* C8 (as claimed): after any number of add_node calls, also concurrent ones, the
\* registry holds exactly one node per call, each with a distinct id, load 0 at
\* creation and is_up; no call overwrites or loses the node of another.
C8_OneNodePerCall ==
    /\ Len(centers) = Cardinality(DOMAIN objs)
    /\ \A a \in AddDone : \E i \in 1..Len(centers) : centers[i][2] = a
    /\ \A a1, a2 \in AddDone : a1 # a2 => objs[a1].id # objs[a2].id
    /\ \A a \in AddDone : objs[a].is_up

\* C9 (as claimed): for two successful route calls to the same node, the one whose
\* load increment was applied first has its event earlier in the Event Log.
C9_LogOrderIsCausalOrder ==
    \A t1, t2 \in Appended :
        (rcenter[t1] = rcenter[t2] /\ AppliedPos(t1) < AppliedPos(t2))
        => appended[t1] < appended[t2]

\* C10 (as claimed): once started, the decay loop never terminates with an error.
C10_DecayNeverStops == dpc # "d_error"

\* ---------------------------------------------------------------- decay claims
\* the step in which the decay worker updates center dcenter and releases its lock
DecayUpdates == dpc = "d_store" /\ dpc' = "d_next"

\* decay_step * capacity / 10 of center object o
EffectiveStep(o) == (decay_step * objs[o].capacity) \div 10

C12_DecayIdempotentAtZero ==
    [][(DecayUpdates /\ objs[dcenter].current_load = 0)
          => objs'[dcenter].current_load = 0]_vars

\* C12 witness: a decay tick with decay_step > 0 has just visited a node of negative
\* capacity whose load was 0
C12_Witness ==
    /\ dpc = "d_next"
    /\ dcenter # None
    /\ decay_step > 0
    /\ objs[dcenter].capacity < 0
    /\ dload = 0
    /\ objs[dcenter].current_load = 0

\* C15: a decay tick never increases a node's current_load: the load after the tick's
\* update of a node is <= the load just before it, whatever the capacity and for every
\* decay_step >= 0.
C15_DecayNeverIncreases ==
    [][DecayUpdates => objs'[dcenter].current_load <= objs[dcenter].current_load]_vars

\* C15 witness: a decay tick with the largest decay_step has just drained a loaded
\* node to 0
C15_Witness ==
    /\ dpc = "d_next"
    /\ dcenter # None
    /\ decay_step = MaxDecayStep
    /\ dload > 0
    /\ objs[dcenter].current_load = 0

\* ---------------------------------------------------------------- request lifecycle
\* C13: a request's assigned_center_id is unset from its creation until a route call
\* on it has succeeded (stored its increment), once set it never changes, whatever
\* step follows, and no request has its increment stored a second time: a request
\* is routed at most once.
C13_AssignedOnceImmutable ==
    [][/\ \A t \in DOMAIN reqObjs' :
            IF t \notin DOMAIN reqObjs
            THEN reqObjs'[t].assigned_center_id = None
            ELSE /\ reqObjs[t].assigned_center_id # None
                      => reqObjs'[t].assigned_center_id = reqObjs[t].assigned_center_id
                 /\ reqObjs'[t].assigned_center_id # None => t \in Applied
       /\ applied' # applied => applied'[Len(applied')] \notin Applied]_vars

\* ---------------------------------------------------------------- gates
\* the thread holding o's gate is between its acquire and its release of that gate
InCriticalSection(o) ==
    \/ /\ objs[o].lock \in Requesters
       /\ rpc[objs[o].lock] = "r_store"
       /\ rcenter[objs[o].lock] = o
    \/ /\ objs[o].lock = DecayThread
       /\ dpc = "d_store"
       /\ dcenter = o

\* every gate that is held is held by a thread inside its  with center.lock  block,
\* whose next step releases it
GatesReleased == \A o \in DOMAIN objs : objs[o].lock # NoThread => InCriticalSection(o)

\* C14: every gate that is acquired is released on every exit path, so that no
\* thread waits forever for a gate, and every route call ends by returning a center
\* or the no-candidates failure and every decay tick runs to its end: no route
\* call and no tick ends in an error.
C14_GatesReleasedCallsComplete ==
    /\ GatesReleased
    /\ \A t \in Requesters : rpc[t] # "error"
    /\ dpc # "d_error"

\* ---------------------------------------------------------------- reported wait
\* the step in which requester t's handler reads the predicted wait it reports
Reports(t) == rpc[t] = "m_wait" /\ rpc'[t] = "done"

C17_TimestampsNonDecreasing ==
    \A i, j \in 1..Len(history) :
        i < j => history[i].timestamp <= history[j].timestamp

\* ---------------------------------------------------------------- one gate at a time
\* the gates thread h holds
GatesHeldBy(h) == {o \in DOMAIN objs : objs[o].lock = h}

\* requester t is in candidate selection (choose_best_center)
Selecting(t) == rpc[t] \in {"r_iter", "r_next", "r_choose"}

\* C18: no thread ever holds two gates at once.  A route call holds at most the
\* gate of the center it chose, and only around its load update; the decay tick
\* holds at most the gate of the center it is visiting, so it has released one
\* gate before it acquires the next; a route call in candidate selection holds no
\* gate.
C18_OneGateAtATime ==
    /\ \A t \in Requesters :
          /\ Cardinality(GatesHeldBy(t)) <= 1
          /\ GatesHeldBy(t) # {} => (rpc[t] = "r_store" /\ GatesHeldBy(t) = {rcenter[t]})
          /\ Selecting(t) => GatesHeldBy(t) = {}
    /\ Cardinality(GatesHeldBy(DecayThread)) <= 1
    /\ GatesHeldBy(DecayThread) # {} => (dpc = "d_store" /\ GatesHeldBy(DecayThread) = {dcenter})

\* C18 witness: the decay tick holds the gate of the second center it visits, having
\* released the first center's gate, which a route call now holds
C18_Witness ==
    /\ dpc = "d_store"
    /\ diter.pos = 3
    /\ GatesHeldBy(DecayThread) = {dcenter}
    /\ \E t \in Requesters :
          /\ rpc[t] = "r_store"
          /\ rcenter[t] = centers[1][2]
          /\ GatesHeldBy(t) = {rcenter[t]}
          /\ rcenter[t] # dcenter

\* ---------------------------------------------------------------- frame
\* a step of requester t's route_request call
RouteSteps(t) ==
    /\ rpc[t] \in {"r_iter", "r_next", "r_choose", "r_lock", "r_store", "r_assign", "r_event"}
    /\ rpc'[t] # rpc[t] \/ riter'[t] # riter[t]

\* the registry and the identity of every center are what they were
RegistryUnchanged ==
    /\ centers' = centers
    /\ DOMAIN objs' = DOMAIN objs
    /\ \A o \in DOMAIN objs :
          /\ objs'[o].id = objs[o].id
          /\ objs'[o].capacity = objs[o].capacity
          /\ objs'[o].is_up = objs[o].is_up

\* C19: a route call changes the current_load of the center it chose only, in the
\* one step that stores its increment, by exactly + expected_duration; it leaves the
\* current_load of every other center, the id, capacity and is_up of every center
\* and the set of registered centers unchanged.  A decay tick changes nothing but
\* current_load values.
C19_RouteAndDecayFrame ==
    [][/\ \A t \in Requesters :
            RouteSteps(t) =>
                /\ RegistryUnchanged
                /\ \A o \in DOMAIN objs :
                      objs'[o].current_load =
                          IF rpc[t] = "r_store" /\ o = rcenter[t]
                          THEN objs[o].current_load + reqObjs[t].expected_duration
                          ELSE objs[o].current_load
       /\ (dpc' # dpc \/ diter' # diter) =>
            /\ RegistryUnchanged
            /\ UNCHANGED <<requests, reqObjs, history, next_center_id, next_request_id>>
            /\ \A o \in DOMAIN objs :
                  objs'[o].current_load # objs[o].current_load => (dpc = "d_store" /\ o = dcenter)]_vars

\* C19 witness: a route call has just stored its increment on one of two registered
\* centers; the other, a candidate too, is still at load 0
C19_Witness ==
    \E t \in Requesters :
        /\ rpc[t] = "r_assign"
        /\ Len(centers) = 2
        /\ Len(rcands[t]) = 2
        /\ objs[rcenter[t]].current_load = reqObjs[t].expected_duration
        /\ \E o \in DOMAIN objs : o # rcenter[t] /\ objs[o].current_load = 0

====
